---- MODULE Spec2Model ----
(***************************************************************************)
(* The PDF book pipeline of books/pdf_processing:                          *)
(*   extract_pdf.py    VietnamesePDFExtractor (normalizer, line classifier, *)
(*                     page pipeline, document extractor, directory run)    *)
(*                     and its main                                         *)
(*   process_books.py  BookProcessor (metadata scan, batch run, report,     *)
(*                     catalog) and its main                                *)
(* A text is a sequence of one-character strings; Python's None for an      *)
(* Optional value is the empty tuple <<>> and a present value v is <<v>>    *)
(* (or the tuple itself for Optional[Tuple]).                               *)
(***************************************************************************)
EXTENDS Integers, Sequences, FiniteSets

\* ------------------------------------------------------------------------
\* Characters and the str methods the code uses
\* ------------------------------------------------------------------------

\* F applied to the value of v: v is evaluated once, however often F uses it
Bind(v, F(_)) == CHOOSE y \in {F(x) : x \in {v}} : TRUE

SetMin(S) == CHOOSE x \in S : \A y \in S : x <= y
SetMax(S) == CHOOSE x \in S : \A y \in S : x >= y

HexDigit == <<"0", "1", "2", "3", "4", "5", "6", "7", "8", "9",
              "A", "B", "C", "D", "E", "F">>

\* the hexadecimal numeral of n, of at least w digits
RECURSIVE Hex(_, _)
Hex(n, w) ==
    IF n = 0 /\ w = 0 THEN ""
    ELSE Hex(n \div 16, IF w > 0 THEN w - 1 ELSE 0) \o HexDigit[(n % 16) + 1]

\* A character is a one-character string. The printable ASCII characters, the
\* escapes \t \n \r \f and the letters of Letters are written as themselves;
\* any other character is written by its code point, U(\h0130) being the
\* string "U+0130". Like every character it is one element of a text
U(n) == "U+" \o Hex(n, 4)

\* the code point of the digit zero of every block of ten decimal digits
\* (Unicode category Nd) after the ASCII digits
DigitZeros ==
    {\h0660, \h06F0, \h07C0, \h0966, \h09E6, \h0A66, \h0AE6, \h0B66, \h0BE6,
     \h0C66, \h0CE6, \h0D66, \h0DE6, \h0E50, \h0ED0, \h0F20, \h1040, \h1090,
     \h17E0, \h1810, \h1946, \h19D0, \h1A80, \h1A90, \h1B50, \h1BB0, \h1C40,
     \h1C50, \hA620, \hA8D0, \hA900, \hA9D0, \hA9F0, \hAA50, \hABF0, \hFF10,
     \h104A0, \h10D30, \h11066, \h110F0, \h11136, \h111D0, \h112F0, \h11450,
     \h114D0, \h11650, \h116C0, \h11730, \h118E0, \h11950, \h11C50, \h11D50,
     \h11DA0, \h16A60, \h16AC0, \h16B50, \h1D7CE, \h1D7D8, \h1D7E2, \h1D7EC,
     \h1D7F6, \h1E140, \h1E2F0, \h1E950, \h1FBF0}

\* \d of the re module on a str pattern: every Unicode decimal digit
Digits ==
    {"0", "1", "2", "3", "4", "5", "6", "7", "8", "9"}
        \cup {U(z + d) : z \in DigitZeros, d \in 0..9}

\* the code points of the whitespace characters that have no escape
OtherSpaces ==
    {\h000B, \h001C, \h001D, \h001E, \h001F, \h0085, \h00A0, \h1680}
        \cup (\h2000..\h200A) \cup {\h2028, \h2029, \h202F, \h205F, \h3000}

\* \s of the re module on a str pattern and the characters str.strip()
\* removes: every Unicode whitespace character
Spaces == {" ", "\n", "\t", "\r", "\f"} \cup {U(n) : n \in OtherSpaces}

\* [A-Z] of the section pattern
UpperAZ == {"A", "B", "C", "D", "E", "F", "G", "H", "I", "J", "K", "L", "M",
            "N", "O", "P", "Q", "R", "S", "T", "U", "V", "W", "X", "Y", "Z"}

\* the character U+0111 (d with stroke)
DStroke == U(\h0111)

\* the cased letters of the patterns and of the inputs: upper case and, at the
\* same index, lower case
UpperChars == <<"A", "B", "C", "D", "E", "F", "G", "H", "I", "J", "K", "L", "M",
                "N", "O", "P", "Q", "R", "S", "T", "U", "V", "W", "X", "Y", "Z",
                "Ư", "Ơ", "Ầ", "À", "Ở", "Ộ", "Ê">>
LowerChars == <<"a", "b", "c", "d", "e", "f", "g", "h", "i", "j", "k", "l", "m",
                "n", "o", "p", "q", "r", "s", "t", "u", "v", "w", "x", "y", "z",
                "ư", "ơ", "ầ", "à", "ở", "ộ", "ê">>

\* the further characters re.IGNORECASE equates with one of these letters:
\* dotted capital I (U+0130) and dotless i (U+0131) with i, long s (U+017F)
\* with s, the Kelvin sign (U+212A) with k
OtherCase == <<U(\h0130), U(\h0131), U(\h017F), U(\h212A)>>
OtherFold == <<"i", "i", "s", "k">>

CaseFrom == UpperChars \o OtherCase
CaseTo == LowerChars \o OtherFold

\* re.IGNORECASE compares characters by their case-folded form; a character
\* that is no case variant of a letter above is compared as itself
Fold(c) ==
    Bind({i \in 1..Len(CaseFrom) : CaseFrom[i] = c},
         LAMBDA hit : IF hit = {} THEN c ELSE CaseTo[SetMin(hit)])

\* [IVXLCDM] under re.IGNORECASE: the characters whose folded form is that of
\* one of the seven letters
RomanCI ==
    {"I", "V", "X", "L", "C", "D", "M", "i", "v", "x", "l", "c", "d", "m",
     U(\h0130), U(\h0131)}

\* [\s\.:] of the chapter word patterns and of the section pattern
SepChars == Spaces \cup {".", ":"}

\* [\.\s] of the numbered-chapter pattern
DotSpace == Spaces \cup {"."}

\* A greedy run X+ / X*: the first index at or after i whose character is not in S
RunEnd(s, i, S) == SetMin({j \in i..Len(s) : s[j] \notin S} \cup {Len(s) + 1})

\* s[i:] of Python, 1-based
Tail_(s, i) == SubSeq(s, i, Len(s))

\* str.strip()
Strip(s) ==
    Bind({i \in 1..Len(s) : s[i] \notin Spaces},
         LAMBDA keep : IF keep = {} THEN <<>>
                       ELSE SubSeq(s, SetMin(keep), SetMax(keep)))

\* str.startswith(p) at index i
HasAt(s, p, i) ==
    /\ i + Len(p) - 1 <= Len(s)
    /\ \A k \in 1..Len(p) : s[i + k - 1] = p[k]

\* str.split('\n'): n separators give n + 1 parts, empty parts kept
RECURSIVE Split(_)
Split(s) ==
    Bind(SetMin({i \in 1..Len(s) : s[i] = "\n"} \cup {Len(s) + 1}),
         LAMBDA nl : IF nl > Len(s) THEN <<s>>
                     ELSE <<SubSeq(s, 1, nl - 1)>> \o Split(Tail_(s, nl + 1)))

\* '\n'.join(lines)
RECURSIVE Join(_)
Join(lines) ==
    IF lines = <<>> THEN <<>>
    ELSE IF Len(lines) = 1 THEN lines[1]
    ELSE lines[1] \o <<"\n">> \o Join(Tail(lines))

\* str.find(p, start), 1-based; 0 stands for Python's -1
Find(s, p, start) ==
    Bind({i \in start..Len(s) : HasAt(s, p, i)},
         LAMBDA at : IF at = {} THEN 0 ELSE SetMin(at))

\* str.count(p): the occurrences of p from index i on, not overlapping, found
\* left to right
RECURSIVE CountFrom(_, _, _)
CountFrom(s, p, i) ==
    Bind(Find(s, p, i),
         LAMBDA at : IF at = 0 THEN 0 ELSE 1 + CountFrom(s, p, at + Len(p)))

DigitChar == <<"0", "1", "2", "3", "4", "5", "6", "7", "8", "9">>

\* str(n) of a page number inside an f-string
RECURSIVE Str(_)
Str(n) ==
    IF n < 10 THEN <<DigitChar[n + 1]>>
    ELSE Str(n \div 10) \o <<DigitChar[(n % 10) + 1]>>

\* ------------------------------------------------------------------------
\* Text Normalizer: VietnamesePDFExtractor.clean_text
\* ------------------------------------------------------------------------

\* The characters of s at the indices that satisfy keep, in order
KeepAt(s, keep(_)) ==
    LET tagged == [i \in 1..Len(s) |-> <<s[i], keep(i)>>]
        kept == SelectSeq(tagged, LAMBDA e : e[2])
    IN  [k \in 1..Len(kept) |-> kept[k][1]]

\* re.sub(r'\s+', ' ', text): every run of whitespace, line breaks included,
\* becomes one space (the first character of the run is kept, as a space)
CollapseWhitespace(s) ==
    LET spaced == [i \in 1..Len(s) |-> IF s[i] \in Spaces THEN " " ELSE s[i]]
    IN  KeepAt(spaced, LAMBDA i : s[i] \notin Spaces \/ i = 1 \/ s[i - 1] \notin Spaces)

W_Page == <<"P", "a", "g", "e">>
W_Trang == <<"T", "r", "a", "n", "g">>

\* ^\s*<word>\s+\d+\s*$ (and ^\s*\d+\s*$ for the empty word) against a text that
\* holds no line break, which is every text line 42 produces: ^ and $ of
\* re.MULTILINE then anchor the whole text
IsPageNumberText(s, word) ==
    Bind(RunEnd(s, 1, Spaces), LAMBDA i0 :
    Bind(RunEnd(s, i0 + Len(word), Spaces), LAMBDA i2 :
    Bind(RunEnd(s, i2, Digits), LAMBDA i3 :
        /\ HasAt(s, word, i0)
        /\ (word # <<>>) => i2 > i0 + Len(word)
        /\ i3 > i2
        /\ RunEnd(s, i3, Spaces) = Len(s) + 1)))

\* re.sub(<page number pattern>, '', text, flags=re.MULTILINE)
StripPageNumber(s, word) == IF IsPageNumberText(s, word) THEN <<>> ELSE s

\* the first index of the whitespace run that holds index i
RunStart(s, i) == SetMax({j \in 1..i : s[j] \notin Spaces} \cup {0}) + 1

\* re.sub(r'\n\s*\n\s*\n+', '\n\n', text): in a whitespace run that holds three
\* or more line breaks, the part from the first to the last line break becomes
\* two line breaks (the first and the last are kept, what lies between is dropped)
CollapseBlankLines(s) ==
    LET NlIn(i) == {j \in RunStart(s, i)..(RunEnd(s, i, Spaces) - 1) : s[j] = "\n"}
        Dropped(i) == /\ s[i] \in Spaces
                      /\ Bind(NlIn(i), LAMBDA nl : /\ Cardinality(nl) >= 3
                                                   /\ i > SetMin(nl)
                                                   /\ i < SetMax(nl))
    IN  IF Cardinality({i \in 1..Len(s) : s[i] = "\n"}) < 3 THEN s
        ELSE KeepAt(s, LAMBDA i : ~Dropped(i))

clean_text(text) ==
    IF text = <<>> THEN <<>>
    ELSE LET t1 == CollapseWhitespace(text)
             t2 == StripPageNumber(t1, <<>>)
             t3 == StripPageNumber(t2, W_Page)
             t4 == StripPageNumber(t3, W_Trang)
             t5 == CollapseBlankLines(t4)
         IN  Strip(t5)

\* ------------------------------------------------------------------------
\* Line Classifier: detect_chapter and detect_section
\* ------------------------------------------------------------------------

\* len(line) > 100 is never a chapter
MaxChapterLen == 100
\* len(line) > 80 is never a section
MaxSectionLen == 80
\* .{1,50} of the numbered-chapter pattern
MinNumberedTitle == 1
MaxNumberedTitle == 50
\* [A-Z\s]{2,30} of the all-caps pattern
MinCapsTail == 2
MaxCapsTail == 30

W_Chuong == <<"C", "h", "ư", "ơ", "n", "g">>
W_Chapter == <<"C", "h", "a", "p", "t", "e", "r">>
W_Phan == <<"P", "h", "ầ", "n">>
W_Bai == <<"B", "à", "i">>

\* the words of chapter_patterns[0..3]; under re.IGNORECASE the upper-case
\* alternative of each pattern matches the same lines as the first one
ChapterWords == <<W_Chuong, W_Chapter, W_Phan, W_Bai>>

\* the word at the start of the line, compared case-insensitively
HasWordCI(line, w) ==
    /\ Len(line) >= Len(w)
    /\ \A k \in 1..Len(w) : Fold(line[k]) = Fold(w[k])

\* (.*)$ and (.{lo,hi})$ on the line from index i on: "." is every character
\* but the line break, and "$" is the end of the line or the place before a line
\* break that ends it. <<>> when there is no match, else <<the group>>
DotsToEnd(line, i, lo, hi) ==
    Bind(SetMin({j \in i..Len(line) : line[j] = "\n"} \cup {Len(line) + 1}),
         LAMBDA p : IF p >= Len(line) /\ p - i >= lo /\ p - i <= hi
                    THEN <<SubSeq(line, i, p - 1)>>
                    ELSE <<>>)

\* ^(word)\s+(\d+|[IVXLCDM]+)[\s\.:]*(.*)$ with re.IGNORECASE: <<>> when the line
\* does not match, else <<group 1, group 2, group 3>>
MatchChapterWord(line, w) ==
    Bind(RunEnd(line, Len(w) + 1, Spaces), LAMBDA i2 :
    Bind(IF i2 <= Len(line) /\ line[i2] \in Digits
         THEN RunEnd(line, i2, Digits)
         ELSE RunEnd(line, i2, RomanCI), LAMBDA i3 :
    Bind(DotsToEnd(line, RunEnd(line, i3, SepChars), 0, Len(line)), LAMBDA g3 :
        IF HasWordCI(line, w) /\ i2 > Len(w) + 1 /\ i3 > i2 /\ g3 # <<>>
        THEN <<SubSeq(line, 1, Len(w)), SubSeq(line, i2, i3 - 1), g3[1]>>
        ELSE <<>>)))

\* ^(\d+)[\.\s]+(.{1,50})$: <<>> or <<group 1, group 2>>. The separator run is
\* greedy and gives back characters, last first, until group 2 matches
MatchNumbered(line) ==
    Bind(RunEnd(line, 1, Digits), LAMBDA i1 :
    Bind({j \in (i1 + 1)..RunEnd(line, i1, DotSpace) :
              DotsToEnd(line, j, MinNumberedTitle, MaxNumberedTitle) # <<>>},
         LAMBDA starts :
        IF i1 > 1 /\ starts # {}
        THEN <<SubSeq(line, 1, i1 - 1),
               DotsToEnd(line, SetMax(starts), MinNumberedTitle, MaxNumberedTitle)[1]>>
        ELSE <<>>))

\* the title detect_chapter builds from a match of a word pattern
WordTitle(g) ==
    LET chapter_title == Strip(g[3])
        full_title == g[1] \o <<" ">> \o g[2]
    IN  IF chapter_title # <<>>
        THEN full_title \o <<":", " ">> \o chapter_title
        ELSE full_title

\* the first word pattern that matches, in list order
RECURSIVE FirstWordMatch(_, _)
FirstWordMatch(line, k) ==
    IF k > Len(ChapterWords) THEN <<>>
    ELSE Bind(MatchChapterWord(line, ChapterWords[k]),
              LAMBDA g : IF g # <<>> THEN g ELSE FirstWordMatch(line, k + 1))

\* detect_chapter: <<>> for None, else <<"CHAPTER", full_title>>
detect_chapter(raw) ==
    Bind(Strip(raw), LAMBDA line :
        IF line = <<>> \/ Len(line) > MaxChapterLen THEN <<>>
        ELSE Bind(FirstWordMatch(line, 1), LAMBDA g :
                 IF g # <<>> THEN <<"CHAPTER", WordTitle(g)>>
                 ELSE Bind(MatchNumbered(line), LAMBDA n :
                          IF n # <<>> THEN <<"CHAPTER", n[1] \o <<" ">> \o n[2]>>
                          ELSE <<>>)))

\* ^(\d+\.\d+)[\s\.:]+(.*)$: <<>> or <<group 1, group 2>>
MatchNumberedSection(line) ==
    Bind(RunEnd(line, 1, Digits), LAMBDA i1 :
    Bind(RunEnd(line, i1 + 1, Digits), LAMBDA i3 :
    Bind(RunEnd(line, i3, SepChars), LAMBDA i4 :
    Bind(DotsToEnd(line, i4, 0, Len(line)), LAMBDA g2 :
        IF /\ i1 > 1
           /\ i1 <= Len(line) /\ line[i1] = "."
           /\ i3 > i1 + 1
           /\ i4 > i3
           /\ g2 # <<>>
        THEN <<SubSeq(line, 1, i3 - 1), g2[1]>>
        ELSE <<>>))))

\* a mutant of MatchAllCaps: the repetition has no upper limit
MatchAllCapsUnbounded(line) ==
    IF /\ Len(line) >= 1 + MinCapsTail
       /\ line[1] \in UpperAZ
       /\ \A k \in 2..Len(line) : line[k] \in UpperAZ \cup Spaces
    THEN <<line>>
    ELSE <<>>

\* ^([A-Z][A-Z\s]{2,30})$: <<>> or <<group 1>>. The group is the whole line, or
\* the line without the line break that ends it when the repetition is used up
MatchAllCaps(line) ==
    Bind(IF Len(line) = 2 + MaxCapsTail /\ line[Len(line)] = "\n"
         THEN Len(line) - 1
         ELSE Len(line), LAMBDA n :
        IF /\ n >= 1 + MinCapsTail
           /\ n <= 1 + MaxCapsTail
           /\ line[1] \in UpperAZ
           /\ \A k \in 2..n : line[k] \in UpperAZ \cup Spaces
        THEN <<SubSeq(line, 1, n)>>
        ELSE <<>>)

\* detect_section: <<>> for None, else <<"SECTION", title>>
detect_section(raw) ==
    Bind(Strip(raw), LAMBDA line :
        IF line = <<>> \/ Len(line) > MaxSectionLen THEN <<>>
        ELSE Bind(MatchNumberedSection(line), LAMBDA g :
                 IF g # <<>> THEN <<"SECTION", g[1] \o <<" ">> \o g[2]>>
                 ELSE Bind(MatchAllCaps(line), LAMBDA c :
                          IF c # <<>> THEN <<"SECTION", c[1]>> ELSE <<>>)))

\* ------------------------------------------------------------------------
\* Page Pipeline and Document Extractor: extract_text_from_pdf
\* ------------------------------------------------------------------------

PageTag == <<"[", "P", "A", "G", "E", ":">>
ChapterTag == <<"[", "C", "H", "A", "P", "T", "E", "R", ":">>
SectionTag == <<"[", "S", "E", "C", "T", "I", "O", "N", ":">>

\* One element of extracted_content / page_content: text is the string the code
\* appends; kind and page record which append of the loop produced it
Token(kind, page, text) == [kind |-> kind, page |-> page, text |-> text]

\* What page.extract_text() gives: a text, None, or an exception
TextPage(t) == [kind |-> "text", text |-> t]
NonePage == [kind |-> "none", text |-> <<>>]
RaisePage == [kind |-> "raise", text |-> <<>>]

\* The body of "for line in lines" for one line: acc is
\* [page_content, current_chapter]
ProcessLine(raw, acc, page_num) ==
    Bind(Strip(raw), LAMBDA line :
        IF line = <<>> THEN acc
        ELSE Bind(detect_chapter(line), LAMBDA chapter_match :
                 IF chapter_match # <<>>
                 THEN IF acc.current_chapter # <<chapter_match[2]>>
                      THEN [page_content |-> Append(acc.page_content,
                                Token("CHAPTER", page_num,
                                      ChapterTag \o chapter_match[2] \o <<"]">>)),
                            current_chapter |-> <<chapter_match[2]>>]
                      ELSE acc
                 ELSE Bind(detect_section(line), LAMBDA section_match :
                          IF section_match # <<>>
                          THEN [acc EXCEPT !.page_content = Append(@,
                                    Token("SECTION", page_num,
                                          SectionTag \o section_match[2] \o <<"]">>))]
                          ELSE [acc EXCEPT !.page_content =
                                    Append(@, Token("BODY", page_num, line))])))

RECURSIVE ProcessLines(_, _, _, _)
ProcessLines(lines, k, acc, page_num) ==
    IF k > Len(lines) THEN acc
    ELSE ProcessLines(lines, k + 1, ProcessLine(lines[k], acc, page_num), page_num)

\* a mutant of PageBlock: the page marker and the separator are emitted for every
\* page that has text, retained content or not
PageBlockAlways(page_num, page_content) ==
    <<Token("PAGE", page_num, PageTag \o Str(page_num) \o <<"]">>)>>
        \o page_content \o <<Token("BLANK", page_num, <<>>)>>

\* "Add page marker and content": what one page adds to extracted_content
PageBlock(page_num, page_content) ==
    IF page_content # <<>>
    THEN <<Token("PAGE", page_num, PageTag \o Str(page_num) \o <<"]">>)>>
             \o page_content \o <<Token("BLANK", page_num, <<>>)>>
    ELSE <<>>

\* One iteration of the page loop on a page whose extract_text() returned;
\* st is [extracted_content, current_chapter]
ProcessPage(st, page_num, page) ==
    IF page.kind = "none" \/ page.text = <<>> THEN st
    ELSE Bind(clean_text(page.text), LAMBDA cleaned :
             IF cleaned = <<>> THEN st
             ELSE Bind(ProcessLines(Split(cleaned), 1,
                           [page_content |-> <<>>,
                            current_chapter |-> st.current_chapter], page_num),
                       LAMBDA acc :
                           [extracted_content |->
                                st.extracted_content
                                    \o PageBlock(page_num, acc.page_content),
                            current_chapter |-> acc.current_chapter]))

\* the strings of extracted_content
Texts(content) == [k \in 1..Len(content) |-> content[k].text]

\* f.write('\n'.join(extracted_content))
FileContent(content) == Bind(Texts(content), Join)

\* The page loop from page n on: the final st, or <<>> when a page raised
RECURSIVE ExtractPages(_, _, _)
ExtractPages(pdf_pages, n, st) ==
    IF n > Len(pdf_pages) THEN <<st>>
    ELSE IF pdf_pages[n].kind = "raise" THEN <<>>
    ELSE Bind(ProcessPage(st, n, pdf_pages[n]),
              LAMBDA next : ExtractPages(pdf_pages, n + 1, next))

\* the characters U+00C0..U+00FF, in order
Latin1Letters == <<"À", "Á", "Â", "Ã", "Ä", "Å", "Æ", "Ç", "È", "É", "Ê", "Ë",
    "Ì", "Í", "Î", "Ï", "Ð", "Ñ", "Ò", "Ó", "Ô", "Õ", "Ö", "×", "Ø", "Ù", "Ú",
    "Û", "Ü", "Ý", "Þ", "ß", "à", "á", "â", "ã", "ä", "å", "æ", "ç", "è", "é",
    "ê", "ë", "ì", "í", "î", "ï", "ð", "ñ", "ò", "ó", "ô", "õ", "ö", "÷", "ø",
    "ù", "ú", "û", "ü", "ý", "þ", "ÿ">>

\* o and u with horn, and their code points
HornLetters == <<"Ơ", "ơ", "Ư", "ư">>
HornPoints == <<\h01A0, \h01A1, \h01AF, \h01B0>>

\* the characters U+1EA0..U+1EF9, in order: the Vietnamese letters with a tone
\* mark or a dot below
ToneLetters == <<"Ạ", "ạ", "Ả", "ả", "Ấ", "ấ", "Ầ", "ầ", "Ẩ", "ẩ", "Ẫ", "ẫ",
    "Ậ", "ậ", "Ắ", "ắ", "Ằ", "ằ", "Ẳ", "ẳ", "Ẵ", "ẵ", "Ặ", "ặ", "Ẹ", "ẹ", "Ẻ",
    "ẻ", "Ẽ", "ẽ", "Ế", "ế", "Ề", "ề", "Ể", "ể", "Ễ", "ễ", "Ệ", "ệ", "Ỉ", "ỉ",
    "Ị", "ị", "Ọ", "ọ", "Ỏ", "ỏ", "Ố", "ố", "Ồ", "ồ", "Ổ", "ổ", "Ỗ", "ỗ", "Ộ",
    "ộ", "Ớ", "ớ", "Ờ", "ờ", "Ở", "ở", "Ỡ", "ỡ", "Ợ", "ợ", "Ụ", "ụ", "Ủ", "ủ",
    "Ứ", "ứ", "Ừ", "ừ", "Ử", "ử", "Ữ", "ữ", "Ự", "ự", "Ỳ", "ỳ", "Ỵ", "ỵ", "Ỷ",
    "ỷ", "Ỹ", "ỹ">>

\* the characters past ASCII that are written as themselves, and their code
\* points at the same index
Letters == Latin1Letters \o HornLetters \o ToneLetters
LetterPoints ==
    [k \in 1..Len(Latin1Letters) |-> \h00C0 + k - 1] \o HornPoints
        \o [k \in 1..Len(ToneLetters) |-> \h1EA0 + k - 1]

LetterSet == {Letters[k] : k \in 1..Len(Letters)}

\* the number a hexadecimal numeral stands for
RECURSIVE HexValue(_)
HexValue(numeral) ==
    IF Len(numeral) = 0 THEN 0
    ELSE 16 * HexValue(SubSeq(numeral, 1, Len(numeral) - 1))
           + (CHOOSE d \in 0..15 :
                  HexDigit[d + 1] = SubSeq(numeral, Len(numeral), Len(numeral)))

\* ord(c) of a character past printable ASCII: <<n>> for a character written
\* by code point or one of Letters, <<>> for a character of printable ASCII or
\* an escape
CodePoint(c) ==
    IF c \notin LetterSet THEN
        IF Len(c) > 1 THEN <<HexValue(SubSeq(c, 3, Len(c)))>> ELSE <<>>
    ELSE <<LetterPoints[CHOOSE k \in 1..Len(Letters) : Letters[k] = c]>>

\* a lone surrogate, U+D800..U+DFFF: a str may hold one, UTF-8 has no encoding
\* for it and encoding a text that holds one raises UnicodeEncodeError
IsSurrogate(c) ==
    Bind(CodePoint(c),
         LAMBDA n : n # <<>> /\ n[1] >= \hD800 /\ n[1] <= \hDFFF)

\* whether text.encode('utf-8') succeeds
Encodable(text) == \A k \in 1..Len(text) : ~IsSurrogate(text[k])

\* encoding='utf-8': the bytes the character c takes in the file
Utf8Len(c) ==
    Bind(CodePoint(c),
         LAMBDA n : IF n = <<>> \/ n[1] < \h0080 THEN 1
                    ELSE IF n[1] < \h0800 THEN 2
                    ELSE IF n[1] < \h10000 THEN 3
                    ELSE 4)

\* the sum of the first j of the byte counts len, each of them 1 to 4
SizeOf(len, j) ==
    j + Cardinality({k \in 1..j : len[k] >= 2})
      + Cardinality({k \in 1..j : len[k] >= 3})
      + Cardinality({k \in 1..j : len[k] >= 4})

\* the bytes the first j characters of text take in the file
Utf8Size(text, j) == SizeOf([k \in 1..j |-> Utf8Len(text[k])], j)

\* the first k bytes of the character c, k less than Utf8Len(c): what a file
\* cut inside a character ends with. It is no character
Utf8Part(c, k) == c \o "/" \o HexDigit[k + 1]

\* a file that holds the first n bytes of text, n less than its size: the
\* characters that fit and the bytes of the next one that do
Utf8Cut(text, n) ==
    Bind([k \in 1..Len(text) |-> Utf8Len(text[k])],
         LAMBDA len :
             Bind(SetMax({j \in 0..Len(text) : SizeOf(len, j) <= n}),
                  LAMBDA j : SubSeq(text, 1, j)
                      \o IF n > SizeOf(len, j)
                         THEN <<Utf8Part(text[j + 1], n - SizeOf(len, j))>>
                         ELSE <<>>))

\* no limit on the size of the output file
NoLimit == -1

\* output_path: opens is whether open(output_path, 'w') succeeds, room the
\* bytes the file may take before a write to it fails (file size limit, space
\* left on the disk)
Dest(opens, room) == [opens |-> opens, room |-> room]

\* open(output_path, 'w', encoding='utf-8') and f.write(text), the file closed
\* on leaving the with block. ok is whether nothing raised; file is <<>> when
\* open raised and the file is left as it was, else <<what the file holds
\* afterwards>>: nothing when text cannot be encoded, which f.write finds
\* before it hands on a byte, else all of text, or the bytes that fitted
\* before the write failed
WriteFile(text, dest) ==
    IF ~dest.opens THEN [ok |-> FALSE, file |-> <<>>]
    ELSE IF ~Encodable(text) THEN [ok |-> FALSE, file |-> <<<<>>>>]
    ELSE IF dest.room = NoLimit \/ Utf8Size(text, Len(text)) <= dest.room
    THEN [ok |-> TRUE, file |-> <<text>>]
    ELSE [ok |-> FALSE, file |-> <<Utf8Cut(text, dest.room)>>]

\* A source document and its destination: readable is whether pdfplumber.open
\* succeeds, pages what extract_text() gives page by page, dest the output path
Doc(readable, pdf_pages, dest) ==
    [readable |-> readable, pages |-> pdf_pages, dest |-> dest]

\* a mutant of extract_text_from_pdf: a page whose extract_text() raises is
\* skipped and the document still counts as extracted
extract_text_from_pdf_skipping(doc) ==
    LET good == SelectSeq(doc.pages, LAMBDA p : p.kind # "raise")
        Result(r) ==
            IF ~doc.readable
            THEN [success |-> FALSE, content |-> <<>>, written |-> <<>>]
            ELSE Bind(WriteFile(FileContent(r[1].extracted_content), doc.dest),
                      LAMBDA w : [success |-> w.ok,
                                  content |-> IF w.ok THEN r[1].extracted_content
                                              ELSE <<>>,
                                  written |-> w.file])
    IN  Bind(ExtractPages(good, 1,
                 [extracted_content |-> <<>>, current_chapter |-> <<>>]), Result)

\* extract_text_from_pdf as a whole: the return value, the extracted_content
\* of a call that returned True, and what the call left at output_path (<<>>
\* when it did not open the file, which is then as it was before the call)
extract_text_from_pdf(doc) ==
    LET Result(r) ==
            IF ~doc.readable \/ r = <<>>
            THEN [success |-> FALSE, content |-> <<>>, written |-> <<>>]
            ELSE Bind(WriteFile(FileContent(r[1].extracted_content), doc.dest),
                      LAMBDA w : [success |-> w.ok,
                                  content |-> IF w.ok THEN r[1].extracted_content
                                              ELSE <<>>,
                                  written |-> w.file])
    IN  Bind(ExtractPages(doc.pages, 1,
                 [extracted_content |-> <<>>, current_chapter |-> <<>>]), Result)

\* ------------------------------------------------------------------------
\* Batch Orchestrator metadata: count_pages_in_text and extract_book_info
\* ------------------------------------------------------------------------

\* first_chapter_match + 9
ChapterTagLen == 9
\* len(description_lines) >= 3
MaxDescriptionLines == 3
\* [:200]
MaxDescriptionChars == 200

\* whether an element of a file is the first bytes of a character only
IsPart(c) == Len(c) > 1 /\ SubSeq(c, Len(c) - 1, Len(c) - 1) = "/"

\* the text mode of open(text_file, 'r'): "\r\n" and "\r" are read as "\n"
UniversalNewlines(text) ==
    Bind(SelectSeq([i \in 1..Len(text) |-> i],
                   LAMBDA i : ~(text[i] = "\n" /\ i > 1 /\ text[i - 1] = "\r")),
         LAMBDA at : [k \in 1..Len(at) |->
                          IF text[at[k]] = "\r" THEN "\n" ELSE text[at[k]]])

\* open(text_file, 'r', encoding='utf-8') and f.read(): <<content>>, or <<>>
\* when it raises, for a file that is missing or ends inside a character
ReadText(file) ==
    IF file = <<>> \/ \E k \in 1..Len(file[1]) : IsPart(file[1][k]) THEN <<>>
    ELSE <<UniversalNewlines(file[1])>>

\* count_pages_in_text on a file: <<>> is a file that is missing
count_pages_in_text(file) ==
    Bind(ReadText(file), LAMBDA read :
        IF read = <<>> THEN 1
        ELSE Bind(CountFrom(read[1], PageTag, 1),
                  LAMBDA page_count : IF page_count > 0 THEN page_count ELSE 1))

\* the loop that collects description_lines, from line k on
RECURSIVE DescriptionLines(_, _, _)
DescriptionLines(lines, k, got) ==
    IF k > Len(lines) \/ Len(got) >= MaxDescriptionLines THEN got
    ELSE IF Strip(lines[k]) # <<>> /\ ~HasAt(lines[k], <<"[">>, 1)
         THEN DescriptionLines(lines, k + 1, Append(got, Strip(lines[k])))
         ELSE DescriptionLines(lines, k + 1, got)

\* ' '.join(description_lines)
RECURSIVE JoinSpace(_)
JoinSpace(lines) ==
    IF lines = <<>> THEN <<>>
    ELSE IF Len(lines) = 1 THEN lines[1]
    ELSE lines[1] \o <<" ">> \o JoinSpace(Tail(lines))

\* s[:n]
Prefix(s, n) == SubSeq(s, 1, IF Len(s) < n THEN Len(s) ELSE n)

\* extract_book_info on a file: title is <<>> for None
extract_book_info(file) ==
    IF ReadText(file) = <<>>
    THEN [title |-> <<>>, chapter_count |-> 0, description |-> <<>>]
    ELSE Bind(ReadText(file)[1], LAMBDA content :
         Bind(Find(content, ChapterTag, 1), LAMBDA first_chapter_match :
         Bind(IF first_chapter_match = 0 THEN 0
              ELSE Find(content, <<"]">>, first_chapter_match), LAMBDA end_match :
         Bind(DescriptionLines(Split(content), 1, <<>>), LAMBDA description_lines :
             [title |-> IF first_chapter_match # 0 /\ end_match # 0
                        THEN <<SubSeq(content, first_chapter_match + ChapterTagLen,
                                      end_match - 1)>>
                        ELSE <<>>,
              chapter_count |-> CountFrom(content, ChapterTag, 1),
              description |-> IF description_lines # <<>>
                              THEN Prefix(JoinSpace(description_lines),
                                          MaxDescriptionChars) \o <<".", ".", ".">>
                              ELSE <<>>]))))

\* book_data of process_all_pdfs, without the timestamp, the paths and the
\* byte sizes
book_data(book_name, file) ==
    Bind(extract_book_info(file), LAMBDA book_info :
        [book_name |-> book_name,
         page_count |-> count_pages_in_text(file),
         title |-> book_info.title,
         chapter_count |-> book_info.chapter_count,
         description |-> book_info.description])

\* ------------------------------------------------------------------------
\* Inputs
\* ------------------------------------------------------------------------

\* the pages a document has at most
MaxPages == 2
\* the PDF files a batch run discovers at most
MaxFiles == 2
\* the process_all_pdfs calls made on one BookProcessor at most
MaxRuns == 2
\* the longest all-caps line handed to the classifier
MaxCapsLen == 33

T_Chuong == <<"C", "h", "ư", "ơ", "n", "g", " ", "1", ":", " ", "M", "ở", " ", DStroke, "ầ", "u", "\n",
              "N", "ộ", "i", " ", "d", "u", "n", "g", " ", DStroke, "ầ", "u", " ", "t", "i", "ê", "n", ".">>
T_Head == <<"C", "h", "a", "p", "t", "e", "r", " ", "1", " ", "I", "n", "t", "r", "o">>
T_HeadA == T_Head \o <<"\n", "a", "l", "p", "h", "a">>
T_HeadB == T_Head \o <<"\n", "b", "e", "t", "a">>
T_TwoLines == <<"a", "l", "p", "h", "a", "\n", "b", "e", "t", "a">>
T_Section == <<"1", ".", "1", " ", "O", "v", "e", "r", "v", "i", "e", "w">>
T_Caps == <<"I", "N", "T", "R", "O", "D", "U", "C", "T", "I", "O", "N">>
T_Quote == <<"s", "e", "e", " ", "[", "P", "A", "G", "E", ":", "7", "]">>
T_Num == <<" ", "1", "2", " ">>
T_PageNum == <<"P", "a", "g", "e", " ", "3">>
T_Blank == <<" ", "\n", " ">>
T_Plain == <<"o", "m", "e", "g", "a">>
T_Ket == <<"K", "ế", "t">>
T_Dau == <<DStroke, "ầ", "u", " ", U(\h1F600)>>
T_Lone == <<"a", U(\hDC80), "b">>
T_Old == <<"o", "l", "d">>
T_Return == <<"a", "l", "p", "h", "a", "\r", "\n", "b", "e", "t", "a">>

\* the sizes in bytes an output file may be limited to: nothing, a cut inside
\* the first page marker, a cut inside the first letter of two bytes of the
\* chapter marker of T_Chuong
Rooms == {0, 4, 21}

\* the destinations extract_text_from_pdf may be given
Dests == {Dest(FALSE, NoLimit), Dest(TRUE, NoLimit)} \cup {Dest(TRUE, n) : n \in Rooms}

\* an output file an earlier run left at output_path
EarlierOutput == Join(<<PageTag \o <<"1", "]">>, T_Old, <<>>>>)

\* the files count_pages_in_text and extract_book_info may be called on: no
\* file, an empty one, outputs of the extractor, one cut inside a character,
\* and files with carriage returns
T_Cr == <<"a", "\r", "b", "\n", "c">>
T_CrTag == <<"[", "P", "A", "G", "E", ":", "1", "]", "\n", "x", "\r",
            "[", "C", "H", "A", "P", "T", "E", "R", ":", "t", "]">>
T_CrLf == <<"a", "\r", "\n", "\n", "b", "\r">>
TextFiles ==
    {<<>>, <<<<>>>>, <<EarlierOutput>>, <<T_Cr>>, <<T_CrTag>>, <<T_CrLf>>,
     <<Join(<<PageTag \o <<"1", "]">>, T_Quote, <<>>>>)>>,
     <<Utf8Cut(Join(<<PageTag \o <<"1", "]">>, T_Ket, <<>>>>), 11)>>}

\* what page.extract_text() may give for a page
PageValues ==
    {NonePage, RaisePage, TextPage(<<>>)}
        \cup {TextPage(t) : t \in {T_Chuong, T_Head, T_HeadA, T_HeadB, T_TwoLines,
                                   T_Section, T_Caps, T_Quote, T_Num, T_PageNum,
                                   T_Blank, T_Plain, T_Return, T_Lone}}

\* the documents a batch run may find in the input directory
BatchLibrary ==
    { Doc(TRUE, <<TextPage(T_Plain), NonePage, TextPage(T_TwoLines)>>,
          Dest(TRUE, NoLimit)),
      Doc(TRUE, <<TextPage(T_Head)>>, Dest(TRUE, NoLimit)),
      Doc(FALSE, <<>>, Dest(TRUE, NoLimit)),
      Doc(TRUE, <<TextPage(T_Plain), RaisePage>>, Dest(TRUE, NoLimit)),
      Doc(TRUE, <<TextPage(T_Plain)>>, Dest(FALSE, NoLimit)),
      Doc(TRUE, <<TextPage(T_Head)>>, Dest(TRUE, 4)),
      Doc(TRUE, <<TextPage(T_Chuong)>>, Dest(TRUE, 21)),
      Doc(TRUE, <<TextPage(T_Ket)>>, Dest(TRUE, 14)),
      Doc(TRUE, <<TextPage(T_Dau)>>, Dest(TRUE, 19)),
      Doc(TRUE, <<TextPage(T_Plain), TextPage(T_Lone)>>, Dest(TRUE, NoLimit)) }

\* n times the character c
Rep(c, n) == [k \in 1..n |-> c]

\* the lines handed to detect_chapter and detect_section
ClassifyLines ==
    {Rep("A", n) : n \in 1..MaxCapsLen}
        \cup {<<"A", " ">> \o Rep("B", n) : n \in 1..(MaxCapsLen - 2)}
        \cup {Rep("a", n) : n \in 1..MaxCapsLen}
        \cup {Rep("A", MaxSectionLen), Rep("A", MaxSectionLen + 1),
              Rep("A", MaxChapterLen + 1), T_Section, T_Head}
        \cup {T_HeadA, T_Section \o <<"\n", "x">>, <<"1", ".", " ", "a", "\n", "b">>,
              <<"A", "A", "A", "\r">>, <<"A", U(\h00A0), "B">>,
              W_Chapter \o <<" ", U(\h0663)>>, W_Chapter \o <<" ", U(\h0131)>>,
              <<"B", "à", U(\h0130), " ", "1">>, <<U(\hFF11), ".", " ", "x">>}

\* pdf_file.stem of the k-th discovered file
BookName(k) == <<"b", "o", "o", "k">> \o Str(k)

\* ------------------------------------------------------------------------
\* State
\* ------------------------------------------------------------------------

VARIABLES
    \* what is run: one document through the extractor and the metadata scan
    \* ("document"), a BookProcessor and the main of process_books.py ("batch"),
    \* a BookProcessor whose methods are called one by one ("direct"),
    \* the classifier on a line ("classifier"), count_pages_in_text or
    \* extract_book_info on a file ("scanner"), process_directory of the
    \* extractor ("directory"), or the main of extract_pdf.py ("extract_main")
    entry,
    \* one document through extract_text_from_pdf and the metadata scan
    pc,                 \* "start", "pages", "returned", "scanned"
    total_pages,        \* len(pdf.pages)
    pages,              \* what extract_text() gave for the pages read so far
    page_num,           \* the page the loop is at
    extracted_content,  \* the list of that name
    current_chapter,    \* <<>> for None, else <<title>>
    chapter_hist,       \* current_chapter after each page processed so far
    out_file,           \* the output file: <<>> while there is none, else <<what it holds>>
    success,            \* the return value of extract_text_from_pdf
    book,               \* <<>>, then <<book_data>> of the document
    \* a BookProcessor through process_all_pdfs and main
    bpc,                \* "idle", "loop", "returned", "exited"
    runs,               \* the process_all_pdfs calls begun
    n_files,            \* len(pdf_files)
    file_idx,           \* the file the loop is at
    processed_count,
    failed_count,
    processed_books,    \* self.processed_books
    books_before,       \* len(self.processed_books) when the call began
    attempted,          \* per loop iteration of this call: name, result, fault
    report,             \* processing_report.json: <<>> or <<report>>
    result,             \* the dict process_all_pdfs returned
    catalog,            \* book_catalog.md: <<>> or <<names of the books listed>>
    exit_code,          \* -1 while the process runs
    \* the line classifier called on its own
    cls_op,             \* "none", "detect_chapter", "detect_section"
    cls_line,
    cls_result,
    \* count_pages_in_text or extract_book_info called on its own
    scan_op,            \* "none", "count_pages_in_text", "extract_book_info"
    scan_file,
    scan_result,
    \* extract_pdf.py on its own: process_directory called, or its main run
    xpc,                \* "start", "returned", "exited"
    dir_out,            \* per PDF file given or found: name, result, file written
    extract_exit        \* the exit status of extract_pdf.py, -1 while it runs

doc_vars == <<pc, total_pages, pages, page_num, extracted_content, current_chapter,
              chapter_hist, out_file, success, book>>
batch_vars == <<bpc, runs, n_files, file_idx, processed_count, failed_count,
                processed_books, books_before, attempted, report, result, catalog,
                exit_code>>
cls_vars == <<cls_op, cls_line, cls_result, scan_op, scan_file, scan_result>>
x_vars == <<xpc, dir_out, extract_exit>>
vars == <<entry, doc_vars, batch_vars, cls_vars, x_vars>>

Init ==
    /\ entry \in {"document", "batch", "direct", "classifier", "scanner",
                 "directory", "extract_main"}
    /\ pc = "start" /\ total_pages = 0 /\ pages = <<>> /\ page_num = 0
    /\ extracted_content = <<>> /\ current_chapter = <<>> /\ chapter_hist = <<>>
    /\ out_file \in (IF entry = "document" THEN {<<>>, <<EarlierOutput>>} ELSE {<<>>})
    /\ success = FALSE /\ book = <<>>
    \* BookProcessor.__init__
    /\ bpc = "idle" /\ runs = 0 /\ n_files = 0 /\ file_idx = 0
    /\ processed_count = 0 /\ failed_count = 0
    /\ processed_books = <<>> /\ books_before = 0 /\ attempted = <<>>
    /\ report = <<>>
    /\ result = [success |-> FALSE, processed |-> 0, failed |-> 0]
    /\ catalog = <<>> /\ exit_code = -1
    /\ cls_op = "none" /\ cls_line = <<>> /\ cls_result = <<>>
    /\ scan_op = "none" /\ scan_file = <<>> /\ scan_result = <<>>
    /\ xpc = "start" /\ dir_out = <<>> /\ extract_exit = -1

\* ------------------------------------------------------------------------
\* extract_text_from_pdf step by step, then the metadata scan of the loop body
\* of process_all_pdfs
\* ------------------------------------------------------------------------

\* pdfplumber.open(pdf_path): it raises, or the document has n pages
Open ==
    /\ entry = "document" /\ pc = "start"
    /\ \/ /\ pc' = "returned" /\ success' = FALSE
          /\ UNCHANGED <<total_pages, page_num, extracted_content, current_chapter>>
       \/ \E n \in 0..MaxPages :
            /\ total_pages' = n /\ page_num' = 1
            /\ extracted_content' = <<>> /\ current_chapter' = <<>>
            /\ pc' = "pages" /\ UNCHANGED success
    /\ UNCHANGED <<pages, chapter_hist, out_file, book, entry, batch_vars, cls_vars, x_vars>>

\* one iteration of "for page_num, page in enumerate(pdf.pages, 1)"
PageStep ==
    /\ pc = "pages" /\ page_num <= total_pages
    /\ \E page \in PageValues :
         /\ pages' = Append(pages, page)
         /\ IF page.kind = "raise"
            THEN /\ pc' = "returned" /\ success' = FALSE
                 /\ UNCHANGED <<page_num, extracted_content, current_chapter,
                                chapter_hist>>
            ELSE LET st == ProcessPage([extracted_content |-> extracted_content,
                                        current_chapter |-> current_chapter],
                                       page_num, page)
                 IN  /\ extracted_content' = st.extracted_content
                     /\ current_chapter' = st.current_chapter
                     /\ chapter_hist' = Append(chapter_hist, st.current_chapter)
                     /\ page_num' = page_num + 1
                     /\ UNCHANGED <<pc, success>>
    /\ UNCHANGED <<total_pages, out_file, book, entry, batch_vars, cls_vars, x_vars>>

\* after the loop: open(output_path, 'w') and f.write. open may raise, which
\* leaves the file as it was; the write may fail for want of room, which leaves
\* the file cut; either way False is returned
WriteOutput ==
    /\ pc = "pages" /\ page_num > total_pages
    /\ \E text \in {FileContent(extracted_content)} :
         \E dest \in Dests :
             \E w \in {WriteFile(text, dest)} :
                 /\ success' = w.ok
                 /\ out_file' = IF dest.opens THEN w.file ELSE out_file
    /\ pc' = "returned"
    /\ UNCHANGED <<total_pages, pages, page_num, extracted_content, current_chapter,
                   chapter_hist, book, entry, batch_vars, cls_vars, x_vars>>

\* "if success": count_pages_in_text and extract_book_info on the output file
ScanBook ==
    /\ pc = "returned" /\ success
    /\ book' = <<book_data(BookName(1), out_file)>>
    /\ pc' = "scanned"
    /\ UNCHANGED <<total_pages, pages, page_num, extracted_content, current_chapter,
                   chapter_hist, out_file, success, entry, batch_vars, cls_vars, x_vars>>

\* ------------------------------------------------------------------------
\* BookProcessor.process_all_pdfs, save_processing_report and main
\* ------------------------------------------------------------------------

\* the failures a document can meet: unreadable source, a page that raises,
\* an output file that cannot be opened, a text that cannot be encoded or
\* that the file has no room for
Faulty(doc) ==
    \/ ~doc.readable
    \/ \E k \in 1..Len(doc.pages) : doc.pages[k].kind = "raise"
    \/ ~doc.dest.opens
    \/ Bind(FileContent(ExtractPages(doc.pages, 1,
                 [extracted_content |-> <<>>,
                  current_chapter |-> <<>>])[1].extracted_content),
            LAMBDA text :
                \/ \E k \in 1..Len(text) : IsSurrogate(text[k])
                \/ /\ doc.dest.room # NoLimit
                   /\ SizeOf([k \in 1..Len(text) |-> Utf8Len(text[k])],
                             Len(text)) > doc.dest.room)

\* the loop body of process_all_pdfs on the k-th file found, the file being
\* doc: what extract_text_from_pdf does, the book_data scanned from the output
\* file under "if success", and whether the document meets a failure
LoopBody(k, doc) ==
    Bind(extract_text_from_pdf(doc), LAMBDA r :
        [file_idx |-> k, result |-> r, faulty |-> Faulty(doc),
         book_data |-> IF r.success THEN <<book_data(BookName(k), r.written)>>
                       ELSE <<>>])

\* the loop body on every place and every document of the library
LibraryOutcomes == {LoopBody(k, doc) : k \in 1..MaxFiles, doc \in BatchLibrary}

\* process_all_pdfs up to the loop: the early returns and the discovery
Begin ==
    /\ \/ entry \in {"batch", "direct"} /\ bpc = "idle"
       \/ entry = "batch" /\ bpc = "returned" /\ runs < MaxRuns
    /\ runs' = runs + 1
    /\ books_before' = Len(processed_books)
    /\ attempted' = <<>>
    /\ \/ \* the input directory does not exist
          /\ result' = [success |-> FALSE, processed |-> 0, failed |-> 0]
          /\ bpc' = "returned"
          /\ n_files' = 0
          /\ UNCHANGED <<file_idx, processed_count, failed_count>>
       \/ \* no PDF file in it
          /\ result' = [success |-> TRUE, processed |-> 0, failed |-> 0]
          /\ bpc' = "returned"
          /\ n_files' = 0
          /\ UNCHANGED <<file_idx, processed_count, failed_count>>
       \/ \E n \in 1..MaxFiles :
            /\ n_files' = n /\ file_idx' = 1
            /\ processed_count' = 0 /\ failed_count' = 0
            /\ bpc' = "loop"
            /\ UNCHANGED result
    /\ UNCHANGED <<entry, processed_books, report, catalog, exit_code, doc_vars,
                   cls_vars, x_vars>>

\* one iteration of "for pdf_file in pdf_files"
ProcessOne ==
    /\ bpc = "loop" /\ file_idx <= n_files
    /\ \E found \in LibraryOutcomes :
         /\ found.file_idx = file_idx
         /\ \E r \in {found.result} :
             /\ attempted' = Append(attempted,
                     [book_name |-> BookName(file_idx), success |-> r.success,
                      faulty |-> found.faulty])
             /\ IF r.success
                THEN /\ processed_books' = Append(processed_books,
                             found.book_data[1])
                     /\ processed_count' = processed_count + 1
                     /\ UNCHANGED failed_count
                ELSE /\ failed_count' = failed_count + 1
                     /\ UNCHANGED <<processed_books, processed_count>>
    /\ file_idx' = file_idx + 1
    /\ UNCHANGED <<bpc, runs, n_files, books_before, report, result, catalog,
                   exit_code, entry, doc_vars, cls_vars, x_vars>>

\* save_processing_report: the report file is overwritten
save_processing_report ==
    <<[total_books |-> Len(processed_books), books |-> processed_books]>>

\* after the loop: the report is saved and the dict returned
Finish ==
    /\ bpc = "loop" /\ file_idx > n_files
    /\ report' = save_processing_report
    /\ result' = [success |-> TRUE, processed |-> processed_count,
                  failed |-> failed_count]
    /\ bpc' = "returned"
    /\ UNCHANGED <<runs, n_files, file_idx, processed_count, failed_count,
                   processed_books, books_before, attempted, catalog, exit_code,
                   entry, doc_vars, cls_vars, x_vars>>

\* the names generate_book_catalog lists
generate_book_catalog ==
    <<[k \in 1..Len(processed_books) |-> processed_books[k].book_name]>>

\* main after its one process_all_pdfs call: the exit status of the process
Main ==
    /\ entry = "batch" /\ bpc = "returned" /\ runs = 1
    /\ \/ /\ result.success /\ result.processed > 0
          /\ \/ catalog' = generate_book_catalog
             \/ UNCHANGED catalog
          /\ exit_code' = 0
       \/ /\ ~(result.success /\ result.processed > 0)
          /\ result.failed > 0
          /\ exit_code' = 1
          /\ UNCHANGED catalog
       \/ /\ ~(result.success /\ result.processed > 0)
          /\ ~(result.failed > 0)
          /\ exit_code' = 0
          /\ UNCHANGED catalog
    /\ bpc' = "exited"
    /\ UNCHANGED <<runs, n_files, file_idx, processed_count, failed_count,
                   processed_books, books_before, attempted, report, result,
                   entry, doc_vars, cls_vars, x_vars>>

\* save_processing_report called on its own, before or after the
\* process_all_pdfs call on a BookProcessor whose output directory exists
DirectSaveReport ==
    /\ entry = "direct" /\ bpc \in {"idle", "returned"}
    /\ report' = save_processing_report
    /\ UNCHANGED <<bpc, runs, n_files, file_idx, processed_count, failed_count,
                   processed_books, books_before, attempted, result, catalog,
                   exit_code, entry, doc_vars, cls_vars, x_vars>>

\* generate_book_catalog called on its own, in the same places
DirectCatalog ==
    /\ entry = "direct" /\ bpc \in {"idle", "returned"}
    /\ catalog' = generate_book_catalog
    /\ UNCHANGED <<bpc, runs, n_files, file_idx, processed_count, failed_count,
                   processed_books, books_before, attempted, report, result,
                   exit_code, entry, doc_vars, cls_vars, x_vars>>

\* ------------------------------------------------------------------------
\* VietnamesePDFExtractor.process_directory and the main of extract_pdf.py
\* ------------------------------------------------------------------------

\* what extract_text_from_pdf leaves for the k-th file: its result and the
\* output file it left (<<>> when it did not open the file)
FileOutcome(k, doc) ==
    LET Outcome(r) == [book_name |-> BookName(k), success |-> r.success,
                       written |-> r.written, faulty |-> Faulty(doc)]
    IN  Bind(extract_text_from_pdf(doc), Outcome)

\* "for pdf_file in pdf_files" of process_directory on the documents found
DirectoryOutputs(docs) == [k \in 1..Len(docs) |-> FileOutcome(k, docs[k])]

\* the directories process_directory may be given: no document stands for an
\* input directory that does not exist or holds no PDF file
Directories == UNION {[1..n -> BatchLibrary] : n \in 0..MaxFiles}

\* process_directory: every PDF file found is extracted, nothing is returned
process_directory ==
    /\ entry = "directory" /\ xpc = "start"
    /\ \E docs \in Directories : dir_out' = DirectoryOutputs(docs)
    /\ xpc' = "returned"
    /\ UNCHANGED <<extract_exit, entry, doc_vars, batch_vars, cls_vars>>

\* main of extract_pdf.py: --file on a missing file, --file on a document, or
\* the directory mode
ExtractMain ==
    /\ entry = "extract_main" /\ xpc = "start"
    /\ \/ /\ dir_out' = <<>>
          /\ extract_exit' = 1
       \/ \E doc \in BatchLibrary : \E o \in {FileOutcome(1, doc)} :
            /\ dir_out' = <<o>>
            /\ extract_exit' = IF o.success THEN 0 ELSE 1
       \/ /\ \E docs \in Directories : dir_out' = DirectoryOutputs(docs)
          /\ extract_exit' = 0
    /\ xpc' = "exited"
    /\ UNCHANGED <<entry, doc_vars, batch_vars, cls_vars>>

\* ------------------------------------------------------------------------
\* The line classifier called on one line
\* ------------------------------------------------------------------------

DetectChapter ==
    /\ entry = "classifier"
    /\ \E l \in ClassifyLines :
         /\ cls_line' = l
         /\ cls_result' = detect_chapter(l)
    /\ cls_op' = "detect_chapter"
    /\ UNCHANGED <<scan_op, scan_file, scan_result, entry, doc_vars, batch_vars,
                   x_vars>>

DetectSection ==
    /\ entry = "classifier"
    /\ \E l \in ClassifyLines :
         /\ cls_line' = l
         /\ cls_result' = detect_section(l)
    /\ cls_op' = "detect_section"
    /\ UNCHANGED <<scan_op, scan_file, scan_result, entry, doc_vars, batch_vars,
                   x_vars>>

\* ------------------------------------------------------------------------
\* count_pages_in_text and extract_book_info called on one file
\* ------------------------------------------------------------------------

CountPages ==
    /\ entry = "scanner"
    /\ \E f \in TextFiles :
         /\ scan_file' = f
         /\ scan_result' = <<count_pages_in_text(f)>>
    /\ scan_op' = "count_pages_in_text"
    /\ UNCHANGED <<cls_op, cls_line, cls_result, entry, doc_vars, batch_vars,
                   x_vars>>

ExtractBookInfo ==
    /\ entry = "scanner"
    /\ \E f \in TextFiles :
         /\ scan_file' = f
         /\ scan_result' = <<extract_book_info(f)>>
    /\ scan_op' = "extract_book_info"
    /\ UNCHANGED <<cls_op, cls_line, cls_result, entry, doc_vars, batch_vars,
                   x_vars>>

\* ------------------------------------------------------------------------
\* Properties
\* ------------------------------------------------------------------------

\* extract_text_from_pdf has returned True
Extracted == pc \in {"returned", "scanned"} /\ success

\* the pages the loop has gone through
PagesDone == 1..Len(chapter_hist)

\* current_chapter when the loop reached page n
Before(n) == IF n = 1 THEN <<>> ELSE chapter_hist[n - 1]

\* the kinds of a page's retained content
Retained == {"CHAPTER", "SECTION", "BODY"}

\* the elements of extracted_content that page n produced, of the given kinds
TokensOf(n, kinds) ==
    SelectSeq(extracted_content, LAMBDA t : t.page = n /\ t.kind \in kinds)

KindCount(kind) ==
    Cardinality({k \in 1..Len(extracted_content) : extracted_content[k].kind = kind})

\* the non-blank lines of a page's raw text, trimmed, in order
RawLines(page) ==
    LET ls == Split(page.text)
    IN  SelectSeq([k \in 1..Len(ls) |-> Strip(ls[k])], LAMBDA l : l # <<>>)

\* a line that is only a page number
IsPageNumberLine(l) ==
    IsPageNumberText(l, <<>>) \/ IsPageNumberText(l, W_Page) \/ IsPageNumberText(l, W_Trang)

\* the book_name fields of a sequence of records
Names(records) == [k \in 1..Len(records) |-> records[k].book_name]

\* the documents of this process_all_pdfs call whose extraction returned True
ExtractedThisRun == Names(SelectSeq(attempted, LAMBDA a : a.success))

\* C1: in directory-batch mode, a run in which at least one document failed
\* extraction ends with exit code 1, after every discovered document has been
\* attempted, whether or not other documents succeeded
C1_ExitOneOnAnyFailure ==
    (bpc = "exited" /\ result.failed > 0)
        => (exit_code = 1 /\ Len(attempted) = n_files)

\* C2: a single page whose raw text is a chapter heading line, a line break and
\* one body line gives exactly [PAGE:1], the chapter marker built from the
\* heading line alone, the body line, and one blank separator
C2_HeadingThenBody ==
    (/\ Extracted
     /\ Len(pages) = 1 /\ pages[1].kind = "text"
     /\ Len(RawLines(pages[1])) = 2
     /\ detect_chapter(RawLines(pages[1])[1]) # <<>>
     /\ detect_chapter(RawLines(pages[1])[2]) = <<>>
     /\ detect_section(RawLines(pages[1])[2]) = <<>>)
        => Texts(extracted_content) =
               << PageTag \o <<"1", "]">>,
                  ChapterTag \o detect_chapter(RawLines(pages[1])[1])[2] \o <<"]">>,
                  RawLines(pages[1])[2],
                  <<>> >>

\* the raw lines of a page that are chapter headings
HeadingLines(page) ==
    {RawLines(page)[k] : k \in {j \in 1..Len(RawLines(page)) :
                                    detect_chapter(RawLines(page)[j]) # <<>>}}

\* C3: two consecutive pages that each hold the identical chapter heading line,
\* whatever their other lines, produce exactly one chapter marker (the
\* heading being a new chapter when the first of them is reached), and a line
\* classified as a chapter is never emitted as a body line
C3_RepeatedHeadingOneMarker ==
    /\ \A n \in PagesDone : \A h \in HeadingLines(pages[n]) :
         (/\ n + 1 \in PagesDone
          /\ h \in HeadingLines(pages[n + 1])
          /\ Before(n) # <<detect_chapter(h)[2]>>)
             => Len(TokensOf(n, {"CHAPTER"})) + Len(TokensOf(n + 1, {"CHAPTER"})) = 1
    /\ \A k \in 1..Len(extracted_content) :
         extracted_content[k].kind = "BODY"
             => detect_chapter(extracted_content[k].text) = <<>>

\* a page with absent or empty text
NoText(page) == page.kind = "none" \/ Strip(page.text) = <<>>

\* a page whose lines are all chapter headings of the chapter already current
OnlySuppressed(n) ==
    /\ pages[n].kind = "text"
    /\ clean_text(pages[n].text) # <<>>
    /\ \A l \in {Split(clean_text(pages[n].text))[k] :
                     k \in 1..Len(Split(clean_text(pages[n].text)))} :
         /\ detect_chapter(l) # <<>>
         /\ <<detect_chapter(l)[2]>> = Before(n)

\* C4: page markers carry distinct page numbers in strictly ascending order; a
\* page has a marker exactly when it contributed a chapter marker, a section
\* marker or a body line; a block is its marker, its content and exactly one
\* blank separator; a page with no text, or with only suppressed duplicate
\* chapter headings, contributes nothing
C4_PageMarkers ==
    LET c == extracted_content
        N == Len(extracted_content)
    IN  /\ \A i, j \in 1..N :
             (i < j /\ c[i].kind = "PAGE" /\ c[j].kind = "PAGE") => c[i].page < c[j].page
        /\ \A i \in 1..N :
             c[i].kind = "PAGE"
                 => /\ c[i].page \in PagesDone
                    /\ c[i].text = PageTag \o Str(c[i].page) \o <<"]">>
        /\ \A n \in PagesDone :
             (TokensOf(n, {"PAGE"}) # <<>>) <=> (TokensOf(n, Retained) # <<>>)
        /\ N > 0 => c[1].kind = "PAGE" /\ c[N].kind = "BLANK"
        /\ \A i \in 1..N :
             /\ c[i].kind = "PAGE"
                  => i < N /\ c[i + 1].kind \in Retained /\ c[i + 1].page = c[i].page
             /\ c[i].kind \in Retained
                  => /\ i > 1 /\ i < N
                     /\ c[i + 1].kind \in Retained \cup {"BLANK"}
                     /\ c[i + 1].page = c[i].page
             /\ c[i].kind = "BLANK"
                  => /\ c[i].text = <<>>
                     /\ i = N \/ c[i + 1].kind = "PAGE"
        /\ \A n \in PagesDone :
             (NoText(pages[n]) \/ OnlySuppressed(n))
                 => TokensOf(n, Retained \cup {"PAGE", "BLANK"}) = <<>>

\* C4 witness: a two-page document whose second page holds only the heading
\* of the current chapter: one page marker, for page 1
C4_Witness ==
    /\ Extracted
    /\ pages = <<TextPage(T_Head), TextPage(T_Head)>>
    /\ KindCount("PAGE") = 1
    /\ TokensOf(2, Retained \cup {"PAGE", "BLANK"}) = <<>>

\* C5: a failure while extracting a document (unreadable source, a page that
\* raises, a write failure) gives the result False and nothing else: every
\* discovered document is attempted once, in order; a BookRecord is appended
\* exactly for the documents without a failure; processed + failed is the
\* number of discovered documents. process_directory and the main of
\* extract_pdf.py likewise get False exactly for the documents with a failure
C5_FailuresNeverAbort ==
    /\ \A k \in 1..Len(dir_out) :
         /\ dir_out[k].book_name = BookName(k)
         /\ dir_out[k].success = ~dir_out[k].faulty
    /\ \A k \in 1..Len(attempted) :
         /\ attempted[k].book_name = BookName(k)
         /\ attempted[k].success = ~attempted[k].faulty
    /\ bpc = "loop"
         => /\ Len(attempted) = file_idx - 1
            /\ processed_count + failed_count = Len(attempted)
    /\ (bpc \in {"returned", "exited"} /\ n_files > 0)
         => /\ Len(attempted) = n_files
            /\ result.success
            /\ result.processed + result.failed = n_files
    /\ books_before <= Len(processed_books)
    /\ Names(SubSeq(processed_books, books_before + 1, Len(processed_books)))
         = Names(SelectSeq(attempted, LAMBDA a : ~a.faulty))

\* C5 witness: a run of two documents has returned, the first failed and the
\* second was still extracted
C5_Witness ==
    /\ bpc = "returned" /\ n_files = 2
    /\ attempted[1].faulty /\ ~attempted[1].success
    /\ attempted[2].success
    /\ result.processed = 1 /\ result.failed = 1

\* C6: when no line of the document matches a chapter or section pattern (and
\* none is a bare page number), the body lines of each page are its non-blank
\* input lines, one body line per input line, in order, inside the block of
\* that page's marker
C6_BodyLinesPreserved ==
    (/\ Extracted
     /\ \A n \in PagesDone : \A k \in 1..Len(RawLines(pages[n])) :
          /\ detect_chapter(RawLines(pages[n])[k]) = <<>>
          /\ detect_section(RawLines(pages[n])[k]) = <<>>
          /\ ~IsPageNumberLine(RawLines(pages[n])[k]))
        => \A n \in PagesDone :
             /\ Texts(TokensOf(n, {"BODY"})) = RawLines(pages[n])
             /\ RawLines(pages[n]) # <<>> => TokensOf(n, {"PAGE"}) # <<>>

\* C7: page_count is the number of page markers the extractor emitted (1 when
\* it emitted none) and chapter_count the number of chapter markers it
\* emitted, whatever the body lines hold
C7_CountsEqualMarkers ==
    pc = "scanned"
        => /\ book[1].page_count =
                 (IF KindCount("PAGE") = 0 THEN 1 ELSE KindCount("PAGE"))
           /\ book[1].chapter_count = KindCount("CHAPTER")

\* a line of the form <major>.<minor><separator><title>, at most 80 characters
IsMajorMinorLine(text) ==
    /\ \A k \in 1..Len(text) : text[k] # "\n"
    /\ Len(Strip(text)) <= 80
    /\ MatchNumberedSection(Strip(text)) # <<>>

\* C8: a page line of the form <major>.<minor><separator><title> of at most
\* 80 characters produces a section marker, no chapter marker, and leaves
\* current_chapter unchanged
C8_MajorMinorIsSection ==
    \A n \in PagesDone :
        (pages[n].kind = "text" /\ IsMajorMinorLine(pages[n].text))
            => /\ Len(TokensOf(n, {"SECTION"})) = 1
               /\ TokensOf(n, {"CHAPTER"}) = <<>>
               /\ chapter_hist[n] = Before(n)

\* a line made of upper-case letters and spaces only
AllCapsLine(l) == l # <<>> /\ \A k \in 1..Len(l) : l[k] \in UpperAZ \cup {" "}

\* C9 as stated: detect_section returns an all-caps line as a section only if
\* its length is between 3 and 30
C9_AllCapsAtMost30 ==
    (cls_op = "detect_section" /\ AllCapsLine(cls_line) /\ cls_result # <<>>)
        => (Len(cls_line) >= 3 /\ Len(cls_line) <= 30)

\* C9 amended: detect_section returns an all-caps line as a section only if
\* its length is between 3 and 31; such a line of 32 or more characters (and
\* so any line longer than 80) is never returned as a section
C9_AllCapsAtMost31 ==
    (cls_op = "detect_section" /\ AllCapsLine(cls_line) /\ cls_result # <<>>)
        => (Len(cls_line) >= 3 /\ Len(cls_line) <= 31)

\* C9 witness: the all-caps line of 31 characters is returned as a section
C9_Witness ==
    /\ cls_op = "detect_section"
    /\ cls_line = Rep("A", 31)
    /\ cls_result = <<"SECTION", Rep("A", 31)>>

\* C10: the report an invocation of process_all_pdfs saves holds exactly one
\* record for each document extracted in that invocation, none from earlier
\* invocations, and total_books is that invocation's processed count
C10_ReportFreshPerRun ==
    (bpc = "returned" /\ n_files > 0)
        => /\ report # <<>>
           /\ report[1].total_books = result.processed
           /\ Names(report[1].books) = ExtractedThisRun

Next ==
    \/ Open \/ PageStep \/ WriteOutput \/ ScanBook
    \/ Begin \/ ProcessOne \/ Finish \/ Main
    \/ DirectSaveReport \/ DirectCatalog
    \/ process_directory \/ ExtractMain
    \/ DetectChapter \/ DetectSection
    \/ CountPages \/ ExtractBookInfo

Spec == Init /\ [][Next]_vars
====
